---- MODULE Spec2Model ----
(***************************************************************************)
(* Model of the actions of PlumeActionStores:                              *)
(*   kafka/actions/jobs.py            the CI job client                    *)
(*   kafka/actions/topics.py          describe / list topics               *)
(*   kafka/actions/consumer_groups.py describe / list groups, group lag    *)
(*   cloud_health/actions/specific.py the dashboard links                  *)
(*                                                                         *)
(* Spec: one behaviour is one invocation of one Kafka domain action.       *)
(* CallSpec: one behaviour is one direct call of an output parser or of a  *)
(* cloud-health action on an input text.  In Spec the CI service           *)
(* is the environment: every HTTP request of the code is one step whose    *)
(* reply (status code, body, transport error, duration) is chosen freely.  *)
(* Requests are logged per stage: the log and the locals of trigger_job    *)
(* are dropped when wait_for_job_completion is entered.  Response classes  *)
(* validate as pydantic v1 does (constr(regex=...) in cloud_health).       *)
(*                                                                         *)
(* Conventions.  An Optional value is a sequence of length 0 (None) or 1.  *)
(* A formatted string (f"...{x}...") is the sequence of its literal parts  *)
(* and embedded values, so "message contains the text of e" is membership. *)
(***************************************************************************)
EXTENDS Integers, Sequences, FiniteSets, TLC

None == <<>>
Some(x) == <<x>>
Contains(parts, t) == \E i \in DOMAIN parts : parts[i] = t

\* ---------------------------------------------------------------- bounds
\* The longest time one HTTP request to the CI service may take, in seconds.
MaxRequestDur == 60
\* Build numbers the CI service hands out are 1..MaxBuild.
MaxBuild == 2

\* The longest text over {a, CR, LF} given to split_kafka_output.
MaxTextLen == 4
\* The most data rows of a consumer-group table given to the lag parser.
MaxRows == 3

\* ------------------------------------------------------ program constants
max_retries == 10
retry_delay == 5
timeout == 300
QueueAttempts == 10
FallbackRetries == 5

\* ------------------------------------------------------------ input sets
Actions == {"describe_kafka_topic", "list_kafka_topics",
            "describe_kafka_consumer_group", "list_kafka_consumer_groups",
            "get_lag_of_kafka_consumer_group"}

\* str(e) of an exception raised by the HTTP transport.
TransportErrors == {"connection refused", "read timed out"}
RequestDurations == {0, MaxRequestDur}
BuildNumbers == 1..MaxBuild

\* str(e) of the exceptions the code itself raises.
VE_BuildParams == "1 validation error for BuildParams: build_number none is not an allowed value"
VE_JobStatus == "1 validation error for JobStatusResponse: status none is not an allowed value"
VE_ConsumerGroups == "1 validation error for ListKafkaConsumerGroupsResponse: consumer_groups value is not a valid list"
UnboundLocal_e == "local variable 'e' referenced before assignment"

\* The job_name literal of each action's TriggerJobRequest.
JobName(a) ==
    CASE a = "describe_kafka_topic" -> "kafka_describe_topic"
      [] a = "list_kafka_topics" -> "kafka_list_topics"
      [] a = "describe_kafka_consumer_group" -> "kafka_describe_consumer_group"
      [] a = "list_kafka_consumer_groups" -> "kafka_list_consumer_groups"
      [] a = "get_lag_of_kafka_consumer_group" -> "kafka_describe_consumer_group"

\* The job_name literal of each action's BuildParams.
WaitJobName(a) ==
    CASE a = "describe_kafka_topic" -> "kafka_describe_topic"
      [] a = "list_kafka_topics" -> "kafka_list_topics"
      [] a = "describe_kafka_consumer_group" -> "kafka_describe_consumer_group"
      [] a = "list_kafka_consumer_groups" -> "kafka_list_consumer_groups"
      [] a = "get_lag_of_kafka_consumer_group" -> "kafka_describe_consumer_group"

\* Variant: the lag action fetches from a job of its own.
ArtifactJobName_LagJob(a) ==
    CASE a = "describe_kafka_topic" -> "kafka_describe_topic"
      [] a = "list_kafka_topics" -> "kafka_list_topics"
      [] a = "describe_kafka_consumer_group" -> "kafka_describe_consumer_group"
      [] a = "list_kafka_consumer_groups" -> "kafka_list_consumer_groups"
      [] a = "get_lag_of_kafka_consumer_group" -> "kafka_get_lag_of_consumer_group"

\* The job_name literal of each action's ArtifactRequest.
ArtifactJobName(a) ==
    CASE a = "describe_kafka_topic" -> "kafka_describe_topic"
      [] a = "list_kafka_topics" -> "kafka_list_topics"
      [] a = "describe_kafka_consumer_group" -> "kafka_describe_consumer_group"
      [] a = "list_kafka_consumer_groups" -> "kafka_list_consumer_groups"
      [] a = "get_lag_of_kafka_consumer_group" -> "kafka_describe_consumer_group"

\* The artifact_path literal of each action's ArtifactRequest.
ArtifactPath(a) == "output.txt"

\* pydantic coercion of the integer build number into the Optional[str]
\* field of TriggerJobResponse, and back into the int field of the
\* artifact and console-log requests.
StrOfInt(n) == ToString(n)
IntOfStr(s) == CHOOSE n \in 0..(MaxBuild + 1) : ToString(n) = s

\* --------------------------------------------------------------- jobs.py
TriggerJobResponse(success, message, build_number) ==
    [success |-> success, message |-> message,
     build_number |-> IF build_number = None THEN None
                      ELSE Some(StrOfInt(build_number[1]))]

JobStatusResponse(status, message, build_logs) ==
    [status |-> status, message |-> message, build_logs |-> build_logs]

\* BuildParams.build_number is a required str: None is rejected.
BuildParamsValid(build_number) == build_number # None

\* Variant: every non-empty result counts as finished.
IsTerminal_AnyResult(status) == status # ""
IsTerminal(status) == status \in {"SUCCESS", "FAILURE"}

\* Variant: the except clause reports the status "UNKNOWN".
get_job_status_Unknown(reply) ==
    IF reply.kind = "error"
      THEN JobStatusResponse("UNKNOWN", <<reply.text>>, None)
    ELSE IF reply.result = None
      THEN JobStatusResponse("", <<VE_JobStatus>>, None)
    ELSE IF IsTerminal(reply.result[1])
      THEN JobStatusResponse(reply.result[1], <<"Job status: ", reply.result[1]>>, None)
    ELSE JobStatusResponse(reply.result[1], <<"Job is in progress.">>, None)

\* get_job_status on the reply of the status request.  reply.kind is
\* "error" (the transport raised reply.text) or "json" (reply.result is the
\* Optional value of the remote "result" field, None for JSON null).
get_job_status(reply) ==
    IF reply.kind = "error"
      THEN JobStatusResponse("", <<reply.text>>, None)
    ELSE IF reply.result = None
      THEN JobStatusResponse("", <<VE_JobStatus>>, None)
    ELSE IF IsTerminal(reply.result[1])
      THEN JobStatusResponse(reply.result[1], <<"Job status: ", reply.result[1]>>, None)
    ELSE JobStatusResponse(reply.result[1], <<"Job is in progress.">>, None)

StatusReplies ==
    [kind : {"json"}, result : {Some("SUCCESS"), Some("FAILURE"), Some("ABORTED"), None}]
    \cup [kind : {"error"}, text : TransportErrors]

\* Variant: elapsed seconds compared with the timeout taken as milliseconds.
TimeoutReached_Millis(elapsed) == elapsed * 1000 > timeout * 1000 * 1000
TimeoutReached(elapsed) == elapsed > timeout
\* Variant: twice as many retries are allowed.
RetriesExceeded_Twice(n) == n >= 2 * max_retries
RetriesExceeded(n) == n >= max_retries

TimeoutResponse ==
    JobStatusResponse("", <<"Timeout reached while waiting for job completion.">>, None)
RetriesResponse ==
    JobStatusResponse("", <<"Exceeded maximum number of retries while waiting for job completion.">>, None)

\* --------------------------------------------------- consumer_groups.py
\* Text is a sequence of one-character strings.
CR == "\r"
LF == "\n"
Whitespace == {" ", "\t", "\n", "\r", "\f"}
Digits == <<"0", "1", "2", "3", "4", "5", "6", "7", "8", "9">>

Drop(s, n) == SubSeq(s, n + 1, Len(s))
StartsWith(s, p) == Len(s) >= Len(p) /\ SubSeq(s, 1, Len(p)) = p

\* str.find: the least 1-based index at which pat occurs in s, 0 if none.
Find(s, pat) ==
    LET hits == {i \in 1..(Len(s) + 1) : StartsWith(Drop(s, i - 1), pat)}
    IN IF hits = {} THEN 0 ELSE CHOOSE i \in hits : \A j \in hits : i <= j

\* str.split(sep) for a non-empty separator.
RECURSIVE Split(_, _)
Split(s, sep) ==
    LET i == Find(s, sep)
    IN IF i = 0 THEN <<s>>
       ELSE <<SubSeq(s, 1, i - 1)>> \o Split(Drop(s, i - 1 + Len(sep)), sep)

RECURSIVE LStrip(_)
LStrip(s) == IF s # <<>> /\ Head(s) \in Whitespace THEN LStrip(Tail(s)) ELSE s
RECURSIVE RStrip(_)
RStrip(s) ==
    IF s # <<>> /\ s[Len(s)] \in Whitespace THEN RStrip(SubSeq(s, 1, Len(s) - 1)) ELSE s
Strip(s) == RStrip(LStrip(s))

\* str.split(): the maximal runs of non-whitespace characters.
RECURSIVE Words(_)
Words(s) ==
    LET t == LStrip(s)
        ends == {i \in 1..Len(t) : t[i] \in Whitespace}
        n == IF ends = {} THEN Len(t) + 1 ELSE CHOOSE i \in ends : \A j \in ends : i <= j
    IN IF t = <<>> THEN <<>>
       ELSE <<SubSeq(t, 1, n - 1)>> \o Words(Drop(t, n - 1))

DigitValue(c) == (CHOOSE i \in DOMAIN Digits : Digits[i] = c) - 1
IsDigits(s) == s # <<>> /\ \A i \in DOMAIN s : \E d \in DOMAIN Digits : Digits[d] = s[i]
\* int(s) succeeds on an optional sign followed by decimal digits.
IsInt(s) == IF s # <<>> /\ Head(s) \in {"+", "-"} THEN IsDigits(Tail(s)) ELSE IsDigits(s)
RECURSIVE DigitsValue(_)
DigitsValue(s) ==
    IF s = <<>> THEN 0 ELSE 10 * DigitsValue(SubSeq(s, 1, Len(s) - 1)) + DigitValue(s[Len(s)])
IntValue(s) ==
    IF Head(s) = "-" THEN 0 - DigitsValue(Tail(s))
    ELSE IF Head(s) = "+" THEN DigitsValue(Tail(s))
    ELSE DigitsValue(s)

\* Variant: the output is split into lines at every line feed.
split_kafka_output_Lines(output) == Split(output, <<LF>>)
split_kafka_output(output) == Split(output, <<CR, LF>>)

clean_up_response(response) ==
    LET group_index == Find(response, <<"G", "R", "O", "U", "P">>)
    IN IF group_index # 0 THEN Drop(response, group_index - 1) ELSE response

\* The loop of extract_lag_values over the lines after the header: the
\* try encloses the whole loop, so the first int() failure ends it.
RECURSIVE LagLoop(_, _)
LagLoop(lines, lag_values) ==
    IF lines = <<>> THEN lag_values
    ELSE LET columns == Words(Strip(Head(lines)))
         IN IF Len(columns) >= 7
              THEN IF IsInt(columns[6])
                     THEN LagLoop(Tail(lines),
                                  Append(lag_values,
                                         [topic |-> columns[2], lag |-> IntValue(columns[6])]))
                     ELSE lag_values
              ELSE LagLoop(Tail(lines), lag_values)

\* Variant: the header line is not skipped.
extract_lag_values_KeepHeader(cleaned_response) ==
    LagLoop(Split(Strip(cleaned_response), <<CR>>), <<>>)
extract_lag_values(cleaned_response) ==
    LagLoop(Tail(Split(Strip(cleaned_response), <<CR>>)), <<>>)

\* ------------------------------------------------ cloud_health/specific.py
\* Location codes are texts; a dashboard URL is the sequence of the parts of
\* its literal around the location code.
Gamma == <<"g", "a", "m", "m", "a">>
Kappa == <<"k", "a", "p", "p", "a">>
Dogfood == <<"d", "o", "g", "f", "o", "o", "d">>
Opensync == <<"o", "p", "e", "n", "s", "y", "n", "c">>
Osync == <<"o", "s", "y", "n", "c">>
Thetadev == <<"t", "h", "e", "t", "a", "d", "e", "v">>
Ci == <<"c", "i">>
Func4 == <<"f", "u", "n", "c", "4">>

\* The alternatives of the regex of each request class.
ProductionLocations == {Gamma, Kappa}
DevelopmentLocations == {Dogfood, Opensync, Osync, Thetadev, Ci, Func4}

\* constr(regex='^(a|b|...)$') validates with re.match: without re.MULTILINE
\* "$" matches at the end of the value and also before a newline that ends it.
RegexMatch(alternatives, value) ==
    \/ value \in alternatives
    \/ /\ value # <<>>
       /\ value[Len(value)] = LF
       /\ SubSeq(value, 1, Len(value) - 1) \in alternatives

\* What a call of a cloud-health action comes to: the request is rejected by
\* validation, the handler returns a response, or the handler returns None.
Rejected == [kind |-> "rejected", cloud_link |-> <<>>]
CloudHealthResponse(cloud_link) == [kind |-> "response", cloud_link |-> cloud_link]
ReturnsNone == [kind |-> "none", cloud_link |-> <<>>]

ProductionLink(code) ==
    <<"https://grafana.sso.plumenet.io/d/", code, "-mocha-and-pytests/mocha-and-pytests">>
DevelopmentLink(code) ==
    <<"https://grafana.sso.plume.tech/d/", code, "-mocha-and-pytests/mocha-and-pytests">>

production_cloud_health(cloud_location) ==
    IF cloud_location = Gamma THEN CloudHealthResponse(ProductionLink(Gamma))
    ELSE IF cloud_location = Kappa THEN CloudHealthResponse(ProductionLink(Kappa))
    ELSE ReturnsNone

development_cloud_health(cloud_location) ==
    IF cloud_location = Dogfood THEN CloudHealthResponse(DevelopmentLink(Dogfood))
    ELSE IF cloud_location = Opensync THEN CloudHealthResponse(DevelopmentLink(Opensync))
    ELSE IF cloud_location = Osync THEN CloudHealthResponse(DevelopmentLink(Osync))
    ELSE IF cloud_location = Thetadev THEN CloudHealthResponse(DevelopmentLink(Thetadev))
    ELSE IF cloud_location = Ci THEN CloudHealthResponse(DevelopmentLink(Ci))
    ELSE IF cloud_location = Func4 THEN CloudHealthResponse(DevelopmentLink(Func4))
    ELSE ReturnsNone

\* ------------------------------------------- the domain actions' responses
\* The outcome of a handler: a response object it returned (kind "response"),
\* an exception travelling inside the outer try (kind "raise"), or an
\* exception that left the action (kind "raised").  success is the bool field
\* of the response; for get_lag_of_kafka_consumer_group, whose success field
\* is a string, it is whether that string starts with "True:", and text is
\* that string.  For the other actions text is the string put in the
\* artifact / topics / consumer_groups field of a failure response.
Response(success, text, body) ==
    [kind |-> "response", success |-> success, text |-> text, body |-> body, exc |-> ""]
Raise(e) ==
    [kind |-> "raise", success |-> FALSE, text |-> <<>>, body |-> <<>>, exc |-> e]
NoResult ==
    [kind |-> "none", success |-> FALSE, text |-> <<>>, body |-> <<>>, exc |-> ""]

\* str() of a JobStatusResponse, as embedded by f"{response}".
StatusDetail(r) ==
    <<"status=", r.status, " message=">> \o r.message
    \o <<" build_logs=">> \o (IF r.build_logs = None THEN <<"None">> ELSE r.build_logs)

\* Building a failure response of the action's response class from a string.
\* ListKafkaConsumerGroupsResponse.consumer_groups is List[str]: a str is
\* rejected by validation, so the constructor raises.
FailureResponse(a, parts) ==
    IF a = "list_kafka_consumer_groups" THEN Raise(VE_ConsumerGroups)
    ELSE Response(FALSE, parts, <<>>)

\* The outermost except clause of each action.
OuterExceptMessage(a, e) ==
    CASE a = "list_kafka_consumer_groups" -> <<"Error with entire try section">>
      [] a = "get_lag_of_kafka_consumer_group" -> <<"False: Error with entire try section: ", e>>
      [] OTHER -> <<"Error with entire try section: ", e>>

OuterExcept(a, e) ==
    LET r == FailureResponse(a, OuterExceptMessage(a, e))
    IN IF r.kind = "raise" THEN [r EXCEPT !.kind = "raised"] ELSE r

\* Everything in the handler runs inside the outer try.
InOuterTry(a, r) == IF r.kind = "raise" THEN OuterExcept(a, r.exc) ELSE r

\* except clause of the wait stage.  In consumer_groups.py lines 79 and 162
\* it is a bare "except:" that formats {e}, a local never bound there.
WaitExceptMessage(a, e) ==
    CASE a = "describe_kafka_topic" -> <<"Error waiting for describe job completion: ", e>>
      [] a = "list_kafka_topics" -> <<"Error waiting for job completion: ", e>>
      [] a = "get_lag_of_kafka_consumer_group" ->
             <<"False: Error waiting for get lag job completion: ", e>>

WaitExcept(a, e) ==
    IF a \in {"describe_kafka_consumer_group", "list_kafka_consumer_groups"}
      THEN Raise(UnboundLocal_e)
      ELSE FailureResponse(a, WaitExceptMessage(a, e))

\* The response to a wait result whose status is not SUCCESS.
JobFailedMessage(a, r) ==
    CASE a = "describe_kafka_topic" ->
             <<"Jenkins job failed: Possibly no match for your topic. ">> \o StatusDetail(r)
      [] a = "list_kafka_topics" -> <<"Jenkins job failed. No matching topics found">>
      [] a = "get_lag_of_kafka_consumer_group" ->
             <<"False: Jenkins job failed: ">> \o StatusDetail(r)
      [] OTHER -> <<"Jenkins job failed: ">> \o StatusDetail(r)

\* except clause of the fetch stage.
FetchExceptMessage(a, e) ==
    CASE a = "get_lag_of_kafka_consumer_group" -> <<"False: Error getting lag artifact: ", e>>
      [] OTHER -> <<"Error getting describe artifact: ", e>>

NoArtifactMessage(a) ==
    IF a = "get_lag_of_kafka_consumer_group"
      THEN <<"False: No artifact response found.">>
      ELSE <<"No artifact response found.">>

\* The response to a non-empty artifact.
SuccessResponse(a, artifact, name) ==
    CASE a = "list_kafka_consumer_groups" -> Response(TRUE, <<>>, split_kafka_output(artifact))
      [] a = "get_lag_of_kafka_consumer_group" ->
             Response(TRUE, <<"True: Successfully retrieved lag of consumer group ", name>>,
                      extract_lag_values(clean_up_response(artifact)))
      [] OTHER -> Response(TRUE, <<>>, artifact)

\* except clause of the trigger stage.
TriggerExceptMessage(a, e) ==
    CASE a = "list_kafka_topics" -> <<"Error triggering job: ", e>>
      [] a = "get_lag_of_kafka_consumer_group" -> <<"False: Error triggering get lag job: ", e>>
      [] OTHER -> <<"Error triggering describe job: ", e>>

\* ------------------------------------------------------------- the state
VARIABLES
    action,        \* the domain action invoked
    name,          \* request.topic_name / request.consumer_group_name
    pc,            \* where the invocation stands
    sent,          \* the requests sent to the CI service in the current stage, in order
    post,          \* trigger_job: the POST's reply (history)
    started,       \* number of the build the accepted POST started, 0 before (history)
    attempts,      \* get_build_number_from_queue: iterations completed
    firstQueue,    \* status code of the first queue poll, 0 before it (history)
    lastQueue,     \* Optional: the reply to the last queue poll (history)
    retry_count,   \* trigger_job: fallback retries left
    lastBuilds,    \* build list of the last build-list query (history)
    trig,          \* Optional: the TriggerJobResponse trigger_job returned
    trigExc,       \* Optional: the text of an exception trigger_job raised
    now,           \* time.time()
    start_time,    \* wait_for_job_completion: start_time
    elapsed_time,  \* wait_for_job_completion: elapsed_time of the last loop check
    retries,       \* wait_for_job_completion: retries
    job_status,    \* wait_for_job_completion: result of the last get_job_status
    lastReply,     \* Optional: the CI reply to the last status request (history)
    pollDur,       \* time the last status request took (history)
    logsDur,       \* time the console-log request took (history)
    lastLogs,      \* Optional: the text the console-log request returned (history)
    waitResp,      \* Optional: the JobStatusResponse wait_for_job_completion returned
    waitExc,       \* Optional: the text of the exception raised in the wait stage
    fetchExc,      \* Optional: the text of the exception raised in the fetch stage
    fetched,       \* Optional: the text get_artifact returned (history)
    result,        \* the outcome of the invocation
    input,         \* the argument of a direct call of a parser or cloud-health handler
    call,          \* the function called directly on input, "none" before the call
    output         \* what that call returned

triggerVars == <<post, started, attempts, firstQueue, lastQueue, retry_count, lastBuilds, trig, trigExc>>
waitVars == <<now, start_time, elapsed_time, retries, job_status, lastReply, pollDur,
              logsDur, lastLogs, waitResp, waitExc>>
pureVars == <<input, call, output>>
vars == <<action, name, pc, sent, triggerVars, waitVars, fetchExc, fetched, result, pureVars>>

RequestNames == {"orders"}
PostCodes == {201, 500}
QueueCodes == {200, 500}
BuildLists ==
    {<<>>} \cup {<<n>> : n \in BuildNumbers} \cup {<<n, m>> : n \in BuildNumbers, m \in BuildNumbers}
LogTexts == {"Finished: SUCCESS", "Finished: FAILURE"}
\* Artifact texts: a CRLF-separated listing and a consumer-group table.
ListingText == <<"a", CR, LF, "b">>
TableText ==
    <<"x", LF, "G", "R", "O", "U", "P", " ", "T", " ", "P", " ", "C", " ", "H", " ", "O", " ", "L",
      CR, "g", " ", "t", " ", "0", " ", "c", " ", "h", " ", "5", " ", "3">>
Artifacts == {ListingText, TableText}

Request(req, job, build) == [req |-> req, job |-> job, build |-> build, path |-> ""]
Count(req) == Cardinality({i \in DOMAIN sent : sent[i].req = req})

\* The locals of an invocation before its first statement.
Fresh ==
    /\ sent = <<>>
    /\ post = None
    /\ started = 0
    /\ attempts = 0
    /\ firstQueue = 0
    /\ lastQueue = None
    /\ retry_count = FallbackRetries
    /\ lastBuilds = None
    /\ trig = None
    /\ trigExc = None
    /\ now = 0
    /\ start_time = 0
    /\ elapsed_time = 0
    /\ retries = 0
    /\ job_status = None
    /\ lastReply = None
    /\ pollDur = 0
    /\ logsDur = 0
    /\ lastLogs = None
    /\ waitResp = None
    /\ waitExc = None
    /\ fetchExc = None
    /\ fetched = None
    /\ result = NoResult

Init ==
    /\ action \in Actions
    /\ name \in RequestNames
    /\ pc = "trigger"
    /\ Fresh
    /\ input = <<>>
    /\ call = "none"
    /\ output = <<>>

\* The invocation ends with outcome r of the code inside the outer try.
Finish(r) ==
    /\ result' = InOuterTry(action, r)
    /\ pc' = "done"

\* ----------------------------------------------------------- trigger_job
\* Variant: trigger_job without its except clause.
TriggerCatch_Reraise(e) == [resp |-> None, exc |-> Some(e)]

\* The except clause of trigger_job: the exception becomes a response.
TriggerCatch(e) == [resp |-> Some(TriggerJobResponse(FALSE, <<e>>, None)), exc |-> None]

\* trigger_job returns r; the action goes on to its wait stage.
TriggerReturns(r) ==
    /\ trig' = Some(r)
    /\ trigExc' = None
    /\ pc' = "wait_enter"
    /\ UNCHANGED result

\* An exception e is raised inside trigger_job's try.  Were it to leave
\* trigger_job, the except clause of the action's trigger stage would answer.
TriggerRaises(e) ==
    /\ trig' = TriggerCatch(e).resp
    /\ trigExc' = TriggerCatch(e).exc
    /\ IF TriggerCatch(e).exc = None
         THEN pc' = "wait_enter" /\ UNCHANGED result
         ELSE Finish(FailureResponse(action, TriggerExceptMessage(action, e)))

PostRequest == Request("POST", JobName(action), "")

\* post_wrapper_full_response raises.
PostError ==
    /\ pc = "trigger"
    /\ \E e \in TransportErrors : TriggerRaises(e)
    /\ sent' = Append(sent, PostRequest)
    /\ UNCHANGED <<pureVars, action, name, post, attempts, firstQueue, lastQueue, started,
                   retry_count, lastBuilds,
                   waitVars, fetchExc, fetched>>

\* Variant: a POST answered with another status than 201 is sent once more.
PostRejected_Repeats ==
    /\ pc = "trigger"
    /\ Count("POST") < 2
    /\ \E code \in PostCodes \ {201}, location \in BOOLEAN :
         post' = Some([status_code |-> code, location |-> location])
    /\ sent' = Append(sent, PostRequest)
    /\ UNCHANGED <<pureVars, action, name, pc, started, attempts, firstQueue, lastQueue,
                   retry_count, lastBuilds, trig, trigExc, waitVars, fetchExc, fetched, result>>

\* response.status_code != 201
PostRejected ==
    /\ pc = "trigger"
    /\ \E code \in PostCodes \ {201}, location \in BOOLEAN :
         /\ post' = Some([status_code |-> code, location |-> location])
         /\ TriggerReturns(TriggerJobResponse(FALSE,
                <<"Unexpected response status code: ", ToString(code)>>, None))
    /\ sent' = Append(sent, PostRequest)
    /\ UNCHANGED <<pureVars, action, name, attempts, firstQueue, lastQueue, started, retry_count,
                   lastBuilds,
                   waitVars, fetchExc, fetched>>

\* 201 without a Location header
PostNoLocation ==
    /\ pc = "trigger"
    /\ post' = Some([status_code |-> 201, location |-> FALSE])
    /\ TriggerReturns(TriggerJobResponse(FALSE,
           <<"Queue location not found in response headers.">>, None))
    /\ sent' = Append(sent, PostRequest)
    /\ UNCHANGED <<pureVars, action, name, attempts, firstQueue, lastQueue, started, retry_count,
                   lastBuilds,
                   waitVars, fetchExc, fetched>>

\* 201 with a Location header: on to get_build_number_from_queue
PostAccepted ==
    /\ pc = "trigger"
    /\ post' = Some([status_code |-> 201, location |-> TRUE])
    /\ \E n \in BuildNumbers : started' = n
    /\ pc' = "queue"
    /\ sent' = Append(sent, PostRequest)
    /\ UNCHANGED <<pureVars, action, name, attempts, firstQueue, lastQueue, retry_count,
                   lastBuilds, trig, trigExc,
                   waitVars, fetchExc, fetched, result>>

\* ------------------------------------------- get_build_number_from_queue
\* Variant: a 404 is retried like any other status code.
QueueOutcome_Retry404(code, executable) ==
    IF code = 200 THEN (IF executable # None THEN "found" ELSE "retry")
    ELSE "retry"

\* What one iteration of the loop does with a queue reply: return the
\* executable's number ("found"), break ("left"), or sleep and go on ("retry").
QueueOutcome(code, executable) ==
    IF code = 200 THEN (IF executable # None THEN "found" ELSE "retry")
    ELSE IF code = 404 THEN "left"
    ELSE "retry"

QueueRequest == Request("QUEUE", JobName(action), "")
InQueueLoop == pc = "queue" /\ attempts < QueueAttempts
NoteFirstQueue(code) == firstQueue' = IF attempts = 0 THEN code ELSE firstQueue
NoteQueue(code, number) == lastQueue' = Some([status_code |-> code, executable |-> number])

\* Variant: the success response is built without the build number.
TriggerFound_NoNumber(build_number) ==
    TriggerReturns(TriggerJobResponse(TRUE, <<"Job triggered successfully.">>, None))

\* trigger_job after the queue and fallback loops, with the build number found.
TriggerFound(build_number) ==
    TriggerReturns(TriggerJobResponse(TRUE, <<"Job triggered successfully.">>, build_number))

\* get_wrapper_full_response(queue_location) raises; trigger_job catches it.
QueueError ==
    /\ InQueueLoop
    /\ \E e \in TransportErrors : TriggerRaises(e)
    /\ sent' = Append(sent, QueueRequest)
    /\ UNCHANGED <<pureVars, action, name, post, attempts, firstQueue, lastQueue, started,
                   retry_count, lastBuilds,
                   waitVars, fetchExc, fetched>>

\* Variant: the executable of a 200 reply is ignored and the loop goes on.
QueueExecutable_KeepsPolling ==
    /\ InQueueLoop
    /\ NoteQueue(200, Some(started))
    /\ NoteFirstQueue(200)
    /\ attempts' = attempts + 1
    /\ pc' = IF attempts + 1 < QueueAttempts THEN "queue" ELSE "fallback"
    /\ sent' = Append(sent, QueueRequest)
    /\ UNCHANGED <<pureVars, action, name, post, started, retry_count, lastBuilds, trig, trigExc,
                   waitVars, fetchExc, fetched, result>>

\* 200 with an executable: the queue item is the one the POST created, so
\* the executable is the build the POST started; its number is returned.
QueueExecutable ==
    /\ InQueueLoop
    /\ LET n == started
       IN /\ QueueOutcome(200, Some(n)) = "found"
          /\ NoteQueue(200, Some(n))
          /\ TriggerFound(Some(n))
    /\ NoteFirstQueue(200)
    /\ sent' = Append(sent, QueueRequest)
    /\ UNCHANGED <<pureVars, action, name, post, started, attempts, retry_count, lastBuilds,
                   waitVars, fetchExc, fetched>>

\* 404: the item left the queue; break, and on to the fallback loop.
QueueNotFound ==
    /\ InQueueLoop
    /\ pc' = (CASE QueueOutcome(404, None) = "left" -> "fallback"
                [] QueueOutcome(404, None) = "retry" ->
                       IF attempts + 1 < QueueAttempts THEN "queue" ELSE "fallback")
    /\ attempts' = IF QueueOutcome(404, None) = "left" THEN attempts ELSE attempts + 1
    /\ NoteFirstQueue(404)
    /\ NoteQueue(404, None)
    /\ sent' = Append(sent, QueueRequest)
    /\ UNCHANGED <<pureVars, action, name, post, started, retry_count, lastBuilds, trig, trigExc,
                   waitVars, fetchExc, fetched, result>>

\* 200 without executable, or another status code: sleep(2) and next iteration;
\* after the last iteration the function returns None.
QueuePending ==
    /\ InQueueLoop
    /\ \E code \in QueueCodes :
         /\ QueueOutcome(code, None) = "retry"
         /\ NoteFirstQueue(code)
         /\ NoteQueue(code, None)
    /\ attempts' = attempts + 1
    /\ pc' = IF attempts + 1 < QueueAttempts THEN "queue" ELSE "fallback"
    /\ sent' = Append(sent, QueueRequest)
    /\ UNCHANGED <<pureVars, action, name, post, started, retry_count, lastBuilds, trig, trigExc,
                   waitVars, fetchExc, fetched, result>>

\* ------------------------------------------------ the latest-build fallback
\* Variant: the last entry of the build list is taken.
get_latest_build_number_Oldest(builds) ==
    IF builds # <<>> THEN Some(builds[Len(builds)]) ELSE None
get_latest_build_number(builds) == IF builds # <<>> THEN Some(builds[1]) ELSE None

BuildsRequest == Request("BUILDS", JobName(action), "")
\* while build_number is None and retry_count > 0
InFallbackLoop == pc = "fallback" /\ retry_count > 0

\* get_wrapper_full_response raises inside get_latest_build_number.
BuildsError ==
    /\ InFallbackLoop
    /\ \E e \in TransportErrors : TriggerRaises(e)
    /\ sent' = Append(sent, BuildsRequest)
    /\ UNCHANGED <<pureVars, action, name, post, attempts, firstQueue, lastQueue, started,
                   retry_count, lastBuilds,
                   waitVars, fetchExc, fetched>>

\* One iteration of the fallback loop whose query reports a build.
BuildsFound ==
    /\ InFallbackLoop
    /\ \E builds \in BuildLists :
         /\ get_latest_build_number(builds) # None
         /\ lastBuilds' = Some(builds)
         /\ TriggerFound(get_latest_build_number(builds))
    /\ retry_count' = retry_count - 1
    /\ sent' = Append(sent, BuildsRequest)
    /\ UNCHANGED <<pureVars, action, name, post, attempts, firstQueue, lastQueue, started, waitVars,
                   fetchExc, fetched>>

\* Variant: trigger_job gives up after the first query that reports no build.
BuildsEmpty_GivesUpAtOnce ==
    /\ InFallbackLoop
    /\ \E builds \in BuildLists :
         /\ get_latest_build_number(builds) = None
         /\ lastBuilds' = Some(builds)
    /\ retry_count' = retry_count - 1
    /\ TriggerReturns(TriggerJobResponse(FALSE,
           <<"Failed to retrieve build number after retries.">>, None))
    /\ sent' = Append(sent, BuildsRequest)
    /\ UNCHANGED <<pureVars, action, name, post, attempts, firstQueue, lastQueue, started, waitVars,
                   fetchExc, fetched>>

\* One iteration whose query reports no build; after the last one
\* trigger_job gives up.
BuildsEmpty ==
    /\ InFallbackLoop
    /\ \E builds \in BuildLists :
         /\ get_latest_build_number(builds) = None
         /\ lastBuilds' = Some(builds)
    /\ retry_count' = retry_count - 1
    /\ IF retry_count - 1 > 0
         THEN UNCHANGED <<pc, trig, trigExc, result>>
         ELSE TriggerReturns(TriggerJobResponse(FALSE,
                  <<"Failed to retrieve build number after retries.">>, None))
    /\ sent' = Append(sent, BuildsRequest)
    /\ UNCHANGED <<pureVars, action, name, post, attempts, firstQueue, lastQueue, started, waitVars,
                   fetchExc, fetched>>

\* ------------------------------------------------- the action's wait stage
\* BuildParams(job_name=..., build_number=<trigger>.build_number) raises.
WaitRequestInvalid ==
    /\ pc = "wait_enter"
    /\ ~BuildParamsValid(trig[1].build_number)
    /\ waitExc' = Some(VE_BuildParams)
    /\ Finish(WaitExcept(action, VE_BuildParams))
    /\ UNCHANGED <<pureVars, action, name, sent, triggerVars, now, start_time, elapsed_time,
                   retries, job_status, lastReply, pollDur, logsDur, lastLogs, waitResp,
                   fetchExc, fetched>>

\* wait_for_job_completion is entered: start_time = time.time(), retries = 0.
\* The frame of trigger_job is gone: its locals are dropped, and with them
\* the history of the trigger stage (sent is the request log of one stage).
WaitBegin ==
    /\ pc = "wait_enter"
    /\ BuildParamsValid(trig[1].build_number)
    /\ start_time' = now
    /\ retries' = 0
    /\ pc' = "wait_loop"
    /\ sent' = <<>>
    /\ post' = None
    /\ started' = 0
    /\ attempts' = 0
    /\ firstQueue' = 0
    /\ lastQueue' = None
    /\ retry_count' = FallbackRetries
    /\ lastBuilds' = None
    /\ UNCHANGED <<pureVars, action, name, trig, trigExc, now, elapsed_time, job_status, lastReply,
                   pollDur, logsDur, lastLogs, waitResp, waitExc, fetchExc, fetched, result>>

\* ------------------------------------------------ wait_for_job_completion
\* Variant: the retry cap is checked before the timeout.
LoopCheck_RetriesFirst(elapsed, n) ==
    IF RetriesExceeded(n) THEN "retries"
    ELSE IF TimeoutReached(elapsed) THEN "timeout"
    ELSE "poll"

\* The two checks at the top of the loop, in the order of the code.
LoopCheck(elapsed, n) ==
    IF TimeoutReached(elapsed) THEN "timeout"
    ELSE IF RetriesExceeded(n) THEN "retries"
    ELSE "poll"

WaitReturns(r) ==
    /\ waitResp' = Some(r)
    /\ pc' = "wait_exit"

WaitTimeout ==
    /\ pc = "wait_loop"
    /\ LoopCheck(now - start_time, retries) = "timeout"
    /\ elapsed_time' = now - start_time
    /\ WaitReturns(TimeoutResponse)
    /\ UNCHANGED <<pureVars, action, name, sent, triggerVars, now, start_time, retries, job_status,
                   lastReply, pollDur, logsDur, lastLogs, waitExc, fetchExc, fetched, result>>

WaitRetriesExceeded ==
    /\ pc = "wait_loop"
    /\ LoopCheck(now - start_time, retries) = "retries"
    /\ elapsed_time' = now - start_time
    /\ WaitReturns(RetriesResponse)
    /\ UNCHANGED <<pureVars, action, name, sent, triggerVars, now, start_time, retries, job_status,
                   lastReply, pollDur, logsDur, lastLogs, waitExc, fetchExc, fetched, result>>

StatusRequest == Request("STATUS", WaitJobName(action), trig[1].build_number[1])

\* One iteration that polls: get_job_status, then either on to the console
\* logs (terminal status) or retries += 1 and sleep(retry_delay).
StatusPoll ==
    /\ pc = "wait_loop"
    /\ LoopCheck(now - start_time, retries) = "poll"
    /\ elapsed_time' = now - start_time
    /\ \E reply \in StatusReplies, d \in RequestDurations :
         /\ lastReply' = Some(reply)
         /\ pollDur' = d
         /\ job_status' = Some(get_job_status(reply))
         /\ IF IsTerminal(get_job_status(reply).status)
              THEN /\ pc' = "logs"
                   /\ now' = now + d
                   /\ retries' = retries
              ELSE /\ pc' = "wait_loop"
                   /\ now' = now + d + retry_delay
                   /\ retries' = retries + 1
    /\ sent' = Append(sent, StatusRequest)
    /\ UNCHANGED <<pureVars, action, name, triggerVars, start_time, logsDur, lastLogs,
                   waitResp, waitExc,
                   fetchExc, fetched, result>>

\* BuildConsoleLogsRequest.build_number is an int: the str is parsed back.
LogsRequest ==
    Request("LOGS", WaitJobName(action), StrOfInt(IntOfStr(trig[1].build_number[1])))

\* Variant: the logs are fetched, and the status is returned without them.
ConsoleLogs_NotAttached ==
    /\ pc = "logs"
    /\ \E logs \in LogTexts, d \in RequestDurations :
         /\ logsDur' = d
         /\ now' = now + d
         /\ lastLogs' = Some(logs)
         /\ WaitReturns(job_status[1])
    /\ sent' = Append(sent, LogsRequest)
    /\ UNCHANGED <<pureVars, action, name, triggerVars, start_time, elapsed_time, retries,
                   job_status,
                   lastReply, pollDur, waitExc, fetchExc, fetched, result>>

\* get_build_console_logs returns the logs; they are attached to the status.
ConsoleLogs ==
    /\ pc = "logs"
    /\ \E logs \in LogTexts, d \in RequestDurations :
         /\ logsDur' = d
         /\ now' = now + d
         /\ lastLogs' = Some(logs)
         /\ WaitReturns(JobStatusResponse(job_status[1].status, job_status[1].message,
                                          Some(logs)))
    /\ sent' = Append(sent, LogsRequest)
    /\ UNCHANGED <<pureVars, action, name, triggerVars, start_time, elapsed_time, retries,
                   job_status,
                   lastReply, pollDur, waitExc, fetchExc, fetched, result>>

\* get_build_console_logs raises: nothing in wait_for_job_completion catches
\* it, so it reaches the except clause of the action's wait stage.
ConsoleLogsError ==
    /\ pc = "logs"
    /\ \E e \in TransportErrors, d \in RequestDurations :
         /\ logsDur' = d
         /\ now' = now + d
         /\ waitExc' = Some(e)
         /\ Finish(WaitExcept(action, e))
    /\ sent' = Append(sent, LogsRequest)
    /\ UNCHANGED <<pureVars, action, name, triggerVars, start_time, elapsed_time, retries,
                   job_status,
                   lastReply, pollDur, lastLogs, waitResp, fetchExc, fetched>>

\* ------------------------------------------- after the wait: status, fetch
\* wait response status != "SUCCESS"
JobFailed ==
    /\ pc = "wait_exit"
    /\ waitResp[1].status # "SUCCESS"
    /\ Finish(FailureResponse(action, JobFailedMessage(action, waitResp[1])))
    /\ UNCHANGED <<pureVars, action, name, sent, triggerVars, waitVars, fetchExc, fetched>>

ArtifactRequest ==
    [Request("ARTIFACT", ArtifactJobName(action), StrOfInt(IntOfStr(trig[1].build_number[1])))
       EXCEPT !.path = ArtifactPath(action)]

\* get_artifact raises: the except clause of the fetch stage.
FetchError ==
    /\ pc = "wait_exit"
    /\ waitResp[1].status = "SUCCESS"
    /\ \E e \in TransportErrors :
         /\ fetchExc' = Some(e)
         /\ Finish(FailureResponse(action, FetchExceptMessage(action, e)))
    /\ sent' = Append(sent, ArtifactRequest)
    /\ UNCHANGED <<pureVars, action, name, triggerVars, waitVars, fetched>>

\* get_artifact returns an empty (falsy) artifact.
FetchEmpty ==
    /\ pc = "wait_exit"
    /\ waitResp[1].status = "SUCCESS"
    /\ fetched' = Some(<<>>)
    /\ Finish(FailureResponse(action, NoArtifactMessage(action)))
    /\ sent' = Append(sent, ArtifactRequest)
    /\ UNCHANGED <<pureVars, action, name, triggerVars, waitVars, fetchExc>>

\* get_artifact returns a non-empty text, which is parsed into the response.
FetchArtifact ==
    /\ pc = "wait_exit"
    /\ waitResp[1].status = "SUCCESS"
    /\ \E artifact \in Artifacts :
         /\ fetched' = Some(artifact)
         /\ Finish(SuccessResponse(action, artifact, name))
    /\ sent' = Append(sent, ArtifactRequest)
    /\ UNCHANGED <<pureVars, action, name, triggerVars, waitVars, fetchExc>>

Next ==
    \/ PostError \/ PostRejected \/ PostNoLocation \/ PostAccepted
    \/ QueueError \/ QueueExecutable \/ QueueNotFound \/ QueuePending
    \/ BuildsError \/ BuildsFound \/ BuildsEmpty
    \/ WaitRequestInvalid \/ WaitBegin
    \/ WaitTimeout \/ WaitRetriesExceeded \/ StatusPoll
    \/ ConsoleLogs \/ ConsoleLogsError
    \/ JobFailed \/ FetchError \/ FetchEmpty \/ FetchArtifact

Spec == Init /\ [][Next]_vars

\* ============================================= direct calls of the functions
\* A second specification: one behaviour is one call of a parser or of a
\* cloud-health action on an input text.
Texts(alphabet, n) == UNION {[1..k -> alphabet] : k \in 0..n}

ThreeLines ==
    <<"a", CR, LF, "b", CR, LF, "c">>
SplitTexts == Texts({"a", CR, LF}, MaxTextLen) \cup {ThreeLines}

\* Consumer-group tables: an optional preamble, the header line, and data rows
\* separated by CR.  A row is well formed, has a "-" for its lag, or is short.
Preamble ==
    <<"x", LF>>
Header ==
    <<"G", "R", "O", "U", "P", " ", "T", " ", "P", " ", "C", " ", "H", " ", "O", " ", "L">>
RowOne ==
    <<"g", " ", "t", "1", " ", "0", " ", "c", " ", "h", " ", "5", " ", "3">>
RowTwo ==
    <<"g", " ", "t", "2", " ", "1", " ", "c", " ", "h", " ", "1", "2", " ", "0">>
RowNoLag ==
    <<"g", " ", "t", "3", " ", "2", " ", "c", " ", "h", " ", "-", " ", "7">>
RowShort ==
    <<"x", " ", "y">>
RowKinds == {RowOne, RowTwo, RowNoLag, RowShort}
RECURSIVE Rows(_)
Rows(rows) == IF rows = <<>> THEN <<>> ELSE <<CR>> \o Head(rows) \o Rows(Tail(rows))
ExampleTable ==
    <<"n", "o", "i", "s", "e", LF, "G", "R", "O", "U", "P", " ", "T", "O", "P", "I", "C", " ",
      "P", " ", "C", "I", "D", " ", "H", " ", "O", " ", "L", "A", "G", CR, "G", "1", " ", "t",
      "o", "p", "i", "c", "A", " ", "0", " ", "c", " ", "h", " ", "5", " ", "3">>
TableTexts ==
    {pre \o Header \o Rows(rows) : pre \in {<<>>, Preamble}, rows \in Texts(RowKinds, MaxRows)}
    \cup {ExampleTable}

\* Values of cloud_location: the listed codes, each also with a newline
\* appended, and unlisted values.
Delta ==
    <<"d", "e", "l", "t", "a">>
LocationTexts ==
    LET listed == ProductionLocations \cup DevelopmentLocations
    IN listed \cup {code \o <<LF>> : code \in listed}
       \cup {code \o <<LF, LF>> : code \in listed}
       \cup {code \o <<" ">> : code \in listed}
       \cup {<<>>, Delta, Gamma \o Kappa, <<"G">> \o Tail(Gamma)}

CallInputs == SplitTexts \cup TableTexts \cup LocationTexts

CallInit ==
    /\ action = ""
    /\ name = ""
    /\ pc = "call"
    /\ Fresh
    /\ input \in CallInputs
    /\ call = "none"
    /\ output = <<>>

\* The function f, called on the input, returns r.
Returns(f, r) ==
    /\ call' = f
    /\ output' = r
    /\ UNCHANGED <<action, name, pc, sent, triggerVars, waitVars, fetchExc, fetched, result,
                   input>>

CallSplit ==
    /\ call = "none"
    /\ Returns("split_kafka_output", split_kafka_output(input))

CallExtractLag ==
    /\ call = "none"
    /\ Returns("extract_lag_values", extract_lag_values(input))

\* The two calls of get_lag_of_kafka_consumer_group on its artifact.
CallCleanUpAndExtract ==
    /\ call = "none"
    /\ Returns("clean_up_response, extract_lag_values",
               extract_lag_values(clean_up_response(input)))

\* The request object is built, which validates cloud_location, and handed
\* to the handler.
CallProductionCloudHealth ==
    /\ call = "none"
    /\ Returns("production_cloud_health",
               IF RegexMatch(ProductionLocations, input)
                 THEN production_cloud_health(input) ELSE Rejected)

CallDevelopmentCloudHealth ==
    /\ call = "none"
    /\ Returns("development_cloud_health",
               IF RegexMatch(DevelopmentLocations, input)
                 THEN development_cloud_health(input) ELSE Rejected)

CallNext ==
    \/ CallSplit \/ CallExtractLag \/ CallCleanUpAndExtract
    \/ CallProductionCloudHealth \/ CallDevelopmentCloudHealth

CallSpec == CallInit /\ [][CallNext]_vars

\* ================================================================ claims
Done == pc = "done"
Answered == result.kind = "response"
FailureAnswer == result.kind = "response" /\ ~result.success
TriggerFailed == trig # None /\ ~trig[1].success
WaitReturned == waitResp # None
\* The last status reply carried the remote result s.
LastPollWas(s) ==
    lastReply # None /\ lastReply[1].kind = "json" /\ lastReply[1].result = Some(s)

\* C1: every invocation of a Kafka domain action ends with a structured
\* response; no exception leaves the action, whatever the trigger, wait and
\* fetch stages do.
C1_NoExceptionEscapes == Done => Answered

\* C2: when a stage raised an exception, the action answers with a failure
\* response whose message contains the text of that exception.
C2_StageExceptionInMessage ==
    Done =>
      /\ trigExc # None => FailureAnswer /\ Contains(result.text, trigExc[1])
      /\ waitExc # None => FailureAnswer /\ Contains(result.text, waitExc[1])
      /\ fetchExc # None => FailureAnswer /\ Contains(result.text, fetchExc[1])

\* C3: after trigger_job returned success=false no status poll, no
\* console-log request and no artifact request is sent, the wait loop is never
\* entered, and the action ends with a failure response.
C3_FailedTriggerShortCircuits ==
    TriggerFailed =>
      /\ pc \in {"wait_enter", "done"}
      /\ Count("STATUS") = 0 /\ Count("LOGS") = 0 /\ Count("ARTIFACT") = 0
      /\ Done => FailureAnswer

\* C4: when trigger_job returned success=false with message M, the action's
\* failure response names the trigger stage and contains M.
C4_TriggerFailureReported ==
    (Done /\ TriggerFailed) =>
      /\ FailureAnswer
      /\ result.text # <<>>
      /\ result.text[1] = TriggerExceptMessage(action, "")[1]
      /\ \A i \in DOMAIN trig[1].message : Contains(result.text, trig[1].message[i])

\* C5 (as claimed): wait_for_job_completion makes no more than max_retries
\* status polls and has returned no later than timeout + one poll interval
\* after it started.
C5_ReturnsWithinTimeoutPlusInterval ==
    /\ Count("STATUS") <= max_retries
    /\ WaitReturned => now - start_time <= timeout + retry_delay

\* C5 (amended): wait_for_job_completion makes no more than max_retries status
\* polls, and control has left it no later than timeout + one poll interval
\* + the time its last status request and its console-log request took.
C5_ReturnsWithinTimeoutPlusRequests ==
    /\ Count("STATUS") <= max_retries
    /\ retries <= max_retries
    /\ now - start_time <= timeout + retry_delay + pollDur + logsDur

\* The wait returned later than timeout + one poll interval after its start.
C5_Witness == WaitReturned /\ now - start_time > timeout + retry_delay

\* C6: a wait that stops on a bound returns status "" without build logs; its
\* message is the timeout message exactly when the elapsed time at the loop
\* check exceeded the timeout, whatever the attempt counter, and the retries
\* message exactly when max_retries polls were made and the timeout was not
\* exceeded; the two messages differ.
C6_BoundAbortReported ==
    (WaitReturned /\ lastLogs = None) =>
      /\ waitResp[1].status = ""
      /\ waitResp[1].build_logs = None
      /\ waitResp[1].message \in {TimeoutResponse.message, RetriesResponse.message}
      /\ waitResp[1].message = TimeoutResponse.message <=> elapsed_time > timeout
      /\ waitResp[1].message = RetriesResponse.message
           <=> (Count("STATUS") = max_retries /\ elapsed_time <= timeout)
      /\ TimeoutResponse.message # RetriesResponse.message

\* The wait stopped on the timeout before the retries were used up.
C6_Witness ==
    WaitReturned /\ waitResp[1] = TimeoutResponse /\ retries < max_retries

\* C7: the wait returns SUCCESS or FAILURE only when its last status poll
\* returned exactly that status; after a poll that returned anything else (a
\* transport failure, null, another value) the console logs are not
\* requested and the wait either polls again or stops on a bound.
C7_TerminalOnlyFromPoll ==
    /\ (WaitReturned /\ waitResp[1].status \in {"SUCCESS", "FAILURE"})
         => LastPollWas(waitResp[1].status)
    /\ pc = "logs" => LastPollWas("SUCCESS") \/ LastPollWas("FAILURE")
    /\ (lastReply # None /\ ~LastPollWas("SUCCESS") /\ ~LastPollWas("FAILURE")) =>
         /\ pc # "logs"
         /\ Count("LOGS") = 0
         /\ WaitReturned => waitResp[1] \in {TimeoutResponse, RetriesResponse}

\* The wait returned a terminal status after at least one non-terminal poll.
C7_Witness == WaitReturned /\ waitResp[1].status = "FAILURE" /\ retries > 0

\* C8: in one run of the wait the console logs are requested at most once,
\* directly after a status poll that returned SUCCESS or FAILURE, never when
\* the wait stops on a bound; no status poll follows the request, and the
\* logs it returned are the build_logs of the returned status.
C8_LogsOnceAfterTerminal ==
    /\ Count("LOGS") <= 1
    /\ \A i \in DOMAIN sent :
         sent[i].req = "LOGS" =>
           /\ i > 1 /\ sent[i - 1].req = "STATUS"
           /\ LastPollWas("SUCCESS") \/ LastPollWas("FAILURE")
           /\ \A j \in DOMAIN sent : j > i => sent[j].req # "STATUS"
    /\ (WaitReturned /\ waitResp[1].status \notin {"SUCCESS", "FAILURE"})
         => Count("LOGS") = 0 /\ waitResp[1].build_logs = None
    /\ (WaitReturned /\ waitResp[1].status \in {"SUCCESS", "FAILURE"})
         => Count("LOGS") = 1 /\ lastLogs # None /\ waitResp[1].build_logs = lastLogs

\* The wait returned a terminal status with the console logs attached.
C8_Witness ==
    WaitReturned /\ waitResp[1].status = "SUCCESS" /\ waitResp[1].build_logs # None

\* C9: trigger_job never raises; when the POST is answered with a status
\* other than 201, or without a Location header, it returns success=false with
\* the message of that case and has polled neither the queue item nor the
\* build list.
C9_TriggerRejectsWithoutPolling ==
    /\ trigExc = None
    /\ pc = "wait_enter" => trig # None
    /\ pc \in {"queue", "fallback"} =>
         post # None /\ post[1].status_code = 201 /\ post[1].location
    /\ (pc = "wait_enter" /\ post # None
        /\ (post[1].status_code # 201 \/ ~post[1].location)) =>
         /\ TriggerFailed
         /\ trig[1].build_number = None
         /\ trig[1].message =
              IF post[1].status_code # 201
                THEN <<"Unexpected response status code: ", ToString(post[1].status_code)>>
                ELSE <<"Queue location not found in response headers.">>
         /\ Count("QUEUE") = 0 /\ Count("BUILDS") = 0

\* trigger_job returned a failure for a transport error of a request.
C9_Witness ==
    /\ pc = "wait_enter" /\ TriggerFailed
    /\ \E e \in TransportErrors : trig[1].message = <<e>>
    /\ Count("BUILDS") > 0

\* C10: when the first queue poll returns 404 no second queue poll is made,
\* trigger_job has not failed at that point and goes on to the build-list
\* fallback; once a build-list query reports a build, trigger_job returns
\* success=true with the number of the first build of that list.
C10_Queue404FallsThrough ==
    firstQueue = 404 =>
      /\ Count("QUEUE") = 1
      /\ pc \in {"fallback", "wait_enter", "done"}
      /\ pc = "fallback" => trig = None /\ retry_count > 0
      /\ Done => TriggerFailed /\ Count("BUILDS") >= 1
      /\ pc = "wait_enter" => Count("BUILDS") >= 1
      /\ (lastBuilds # None /\ lastBuilds[1] # <<>>) =>
           /\ pc = "wait_enter"
           /\ trig[1].success
           /\ trig[1].build_number = Some(ToString(lastBuilds[1][1]))

\* After a 404 on the first queue poll the fallback found a build.
C10_Witness ==
    firstQueue = 404 /\ pc = "wait_enter" /\ trig # None /\ trig[1].success

\* The last status request failed in the transport.
LastPollFailed == lastReply # None /\ lastReply[1].kind = "error"

\* C11: get_job_status answers every remote result other than SUCCESS and
\* FAILURE, null included, with the message "Job is in progress." and never
\* with an error outcome (an empty status with an error text).
C11_NonTerminalIsInProgress ==
    (lastReply # None /\ lastReply[1].kind = "json"
     /\ lastReply[1].result \notin {Some("SUCCESS"), Some("FAILURE")}) =>
      /\ job_status[1].message = <<"Job is in progress.">>
      /\ job_status[1].status # ""

\* C12 (as claimed): when the status request fails in the transport,
\* get_job_status returns the status "UNKNOWN" with the error text as message.
C12_TransportFailureUnknown ==
    LastPollFailed =>
      job_status = Some(JobStatusResponse("UNKNOWN", <<lastReply[1].text>>, None))

\* C12 (amended): when the status request fails in the transport,
\* get_job_status returns the empty status "" with the error text as message
\* and no build logs; no exception leaves it, so the wait stage raises
\* nothing and the wait polls again or stops on a bound.
C12_TransportFailureEmptyStatus ==
    LastPollFailed =>
      /\ job_status = Some(JobStatusResponse("", <<lastReply[1].text>>, None))
      /\ waitExc = None
      /\ pc \in {"wait_loop", "wait_exit", "done"}
      /\ WaitReturned => waitResp[1] \in {TimeoutResponse, RetriesResponse}

\* The wait stopped on the retry cap after a status request that failed.
C12_Witness ==
    LastPollFailed /\ WaitReturned /\ waitResp[1] = RetriesResponse

\* C13: when the wait returned a status other than SUCCESS, the action
\* answers with a failure response whose message contains the status and the
\* message of the wait's result.
C13_FailedWaitDetailEmbedded ==
    (Done /\ WaitReturned /\ waitResp[1].status # "SUCCESS") =>
      /\ FailureAnswer
      /\ Contains(result.text, waitResp[1].status)
      /\ \A i \in DOMAIN waitResp[1].message :
           Contains(result.text, waitResp[1].message[i])

\* The fetch stage got a non-empty text / an empty artifact from get_artifact.
FetchedText == fetched # None /\ fetched[1] # <<>>
FetchedNothing == fetched = Some(<<>>)

\* C14: when the trigger succeeded, the wait returned SUCCESS and get_artifact
\* returned a non-empty text, the action answers with a response that reports
\* success (for get_lag_of_kafka_consumer_group a string starting with
\* "True:") and carries a non-empty parsed body.
C14_SuccessHasBody ==
    (Done /\ FetchedText /\ trig[1].success /\ waitResp[1].status = "SUCCESS") =>
      /\ Answered
      /\ result.success
      /\ action = "get_lag_of_kafka_consumer_group" =>
           result.text[1] = "True: Successfully retrieved lag of consumer group "
      /\ result.body # <<>>

\* C15: get_artifact sends exactly one GET and the action answers right after
\* it; an empty artifact after a SUCCESS wait yields a failure response with
\* the text "No artifact response found." (prefixed "False: " in the success
\* string of get_lag_of_kafka_consumer_group), which differs from the
\* response to a transport error of the fetch.
C15_EmptyArtifactDistinct ==
    /\ Count("ARTIFACT") <= 1
    /\ (fetched # None \/ fetchExc # None) => Done /\ Count("ARTIFACT") = 1
    /\ (Done /\ FetchedNothing) =>
         /\ waitResp[1].status = "SUCCESS"
         /\ FailureAnswer
         /\ result.text \in {<<"No artifact response found.">>,
                              <<"False: No artifact response found.">>}
         /\ \A e \in TransportErrors : result.text # FetchExceptMessage(action, e)

\* ----------------------------------------------- claims on the direct calls
Called(f) == call = f

\* The lag entries of all well-formed lines: a line that fails to parse is
\* skipped and the lines after it are still read.
RECURSIVE LinewiseLag(_)
LinewiseLag(lines) ==
    IF lines = <<>> THEN <<>>
    ELSE LET columns == Words(Strip(Head(lines)))
         IN IF Len(columns) >= 7 /\ IsInt(columns[6])
              THEN <<[topic |-> columns[2], lag |-> IntValue(columns[6])]>>
                   \o LinewiseLag(Tail(lines))
              ELSE LinewiseLag(Tail(lines))

\* C16: a row of extract_lag_values' input that has at least 7 columns and a
\* non-integer column 5 costs only that row: the result holds the entries of
\* the well-formed rows before it and of every well-formed row after it.
C16_ParseFailureCostsOneRow ==
    Called("extract_lag_values") =>
      output = LinewiseLag(Tail(Split(Strip(input), <<CR>>)))

TopicA == <<"t", "o", "p", "i", "c", "A">>

\* C17 (as claimed): the lag extraction applied to the example table returns
\* exactly one entry, topic "topicA" with lag 3.
C17_ExampleLagThree ==
    (Called("clean_up_response, extract_lag_values") /\ input = ExampleTable) =>
      output = <<[topic |-> TopicA, lag |-> 3]>>

\* C17 (amended): the lag extraction applied to the example table skips the
\* preamble and the header row and returns exactly one entry, topic "topicA"
\* with lag 5, the value of column index 5 of the data row.
C17_ExampleLagFive ==
    (Called("clean_up_response, extract_lag_values") /\ input = ExampleTable) =>
      /\ StartsWith(clean_up_response(input), <<"G", "R", "O", "U", "P">>)
      /\ output = <<[topic |-> TopicA, lag |-> 5]>>

\* The lag extraction was applied to the example table and returned one entry.
C17_Witness ==
    Called("clean_up_response, extract_lag_values") /\ input = ExampleTable /\ Len(output) = 1

\* The number of places at which CR LF occurs in a text.
CountCRLF(text) ==
    Cardinality({i \in 1..(Len(text) - 1) : text[i] = CR /\ text[i + 1] = LF})

RECURSIVE JoinCRLF(_)
JoinCRLF(entries) ==
    IF Len(entries) = 1 THEN entries[1]
    ELSE entries[1] \o <<CR, LF>> \o JoinCRLF(Tail(entries))

\* C18: split_kafka_output returns one entry more than its input has
\* occurrences of CR LF; no entry contains CR LF; the entries joined with
\* CR LF are the input (nothing is trimmed, dropped or merged);
\* "a\r\nb\r\nc" gives the three entries a, b, c and the empty text gives
\* one empty entry.
C18_SplitOnCRLFOnly ==
    Called("split_kafka_output") =>
      /\ Len(output) = CountCRLF(input) + 1
      /\ \A i \in DOMAIN output : CountCRLF(output[i]) = 0
      /\ JoinCRLF(output) = input
      /\ input = ThreeLines => output = << <<"a">>, <<"b">>, <<"c">> >>
      /\ input = <<>> => output = << <<>> >>

\* split_kafka_output split at the one CR LF of a text and kept the lone LF
\* before it and the lone CR after it.
C18_Witness ==
    /\ Called("split_kafka_output")
    /\ input = <<LF, CR, LF, CR>>
    /\ output = << <<LF>>, <<CR>> >>

\* C19: a cloud-health action answers a listed location code with the
\* dashboard URL of that code, and every other value of cloud_location is
\* rejected by the validation of the request; no call returns nothing.
C19_OnlyListedLocationsAccepted ==
    /\ Called("production_cloud_health") =>
         output = IF input \in ProductionLocations
                    THEN CloudHealthResponse(ProductionLink(input)) ELSE Rejected
    /\ Called("development_cloud_health") =>
         output = IF input \in DevelopmentLocations
                    THEN CloudHealthResponse(DevelopmentLink(input)) ELSE Rejected

\* ------------------------------------------------- claims on trigger_job
\* trigger_job has returned and the history of its run is still at hand.
TriggerReturned == pc = "wait_enter"
LastQueueCode == lastQueue[1].status_code
LastQueueNumber == lastQueue[1].executable

\* C21: trigger_job returns a response on every path; the response has
\* success=true exactly when it has a build number; a success response
\* carries the first number of the last build list if the fallback ran, and
\* otherwise the executable number of the last queue reply.
C21_BuildNumberIffSuccess ==
    /\ TriggerReturned => trig # None
    /\ trig # None => (trig[1].success <=> trig[1].build_number # None)
    /\ (TriggerReturned /\ trig[1].success) =>
         IF lastBuilds # None
           THEN /\ lastBuilds[1] # <<>>
                /\ trig[1].build_number = Some(ToString(lastBuilds[1][1]))
           ELSE /\ lastQueue # None /\ LastQueueNumber # None
                /\ trig[1].build_number = Some(ToString(LastQueueNumber[1]))

\* trigger_job returned success with the number a queue poll carried.
C21_Witness ==
    TriggerReturned /\ trig[1].success /\ lastBuilds = None /\ attempts > 0

\* C22: at most QueueAttempts queue polls are made; a 200 reply with an
\* executable ends the polling and its number is returned at once; a 404 ends
\* the polling at once; after any other reply the next poll follows while
\* fewer than QueueAttempts were made; the fallback is entered, without a
\* build number, only after a 404 or after QueueAttempts polls.
C22_QueueResolution ==
    /\ Count("QUEUE") <= QueueAttempts
    /\ attempts <= QueueAttempts
    /\ pc = "queue" =>
         /\ Count("QUEUE") = attempts /\ attempts < QueueAttempts
         /\ lastQueue # None => LastQueueCode # 404 /\ LastQueueNumber = None
    /\ (lastQueue # None /\ LastQueueNumber # None) =>
         /\ LastQueueCode = 200
         /\ TriggerReturned /\ trig[1].success
         /\ trig[1].build_number = Some(ToString(LastQueueNumber[1]))
         /\ sent[Len(sent)].req = "QUEUE" /\ Count("BUILDS") = 0
    /\ (lastQueue # None /\ LastQueueCode = 404) =>
         /\ pc \in {"fallback", "wait_enter", "done"}
         /\ Count("QUEUE") = attempts + 1
    /\ (lastQueue # None /\ LastQueueCode # 404 /\ LastQueueNumber = None
        /\ Count("QUEUE") = attempts /\ attempts < QueueAttempts) => pc = "queue"
    /\ pc = "fallback" =>
         /\ trig = None
         /\ lastQueue # None /\ LastQueueNumber = None
         /\ LastQueueCode = 404 \/ Count("QUEUE") = QueueAttempts

\* All QueueAttempts polls were made without a build number.
C22_Witness ==
    pc = "fallback" /\ Count("QUEUE") = QueueAttempts /\ LastQueueCode # 404

\* C23: build-list queries are made only after the queue loop ended without
\* a build number, never after a queue reply with an executable; at most
\* FallbackRetries are made; a query that reports builds ends the fallback,
\* and the first number of its list is the build number returned.
C23_FallbackAfterQueueOnly ==
    /\ Count("BUILDS") <= FallbackRetries
    /\ Count("BUILDS") > 0 =>
         /\ lastQueue # None /\ LastQueueNumber = None
         /\ LastQueueCode = 404 \/ Count("QUEUE") = QueueAttempts
    /\ (lastQueue # None /\ LastQueueNumber # None) => Count("BUILDS") = 0 /\ lastBuilds = None
    /\ pc = "fallback" =>
         /\ retry_count > 0
         /\ Count("BUILDS") = FallbackRetries - retry_count
         /\ lastBuilds # None => lastBuilds[1] = <<>>
    /\ (lastBuilds # None /\ lastBuilds[1] # <<>>) =>
         /\ TriggerReturned /\ trig[1].success
         /\ trig[1].build_number = Some(ToString(lastBuilds[1][1]))
         /\ sent[Len(sent)].req = "BUILDS"

\* The fallback found, at a later query, a list of two different builds.
C23_Witness ==
    /\ TriggerReturned /\ trig[1].success
    /\ lastBuilds # None /\ Len(lastBuilds[1]) = 2 /\ lastBuilds[1][1] # lastBuilds[1][2]
    /\ Count("BUILDS") > 1

GaveUp == TriggerJobResponse(FALSE, <<"Failed to retrieve build number after retries.">>, None)

\* C24: trigger_job returns success=false with the message "Failed to
\* retrieve build number after retries." and no build number when the queue
\* loop ended without a number and FallbackRetries build-list queries were
\* answered without a build, and only then.
C24_GivesUpAfterBothPhases ==
    /\ (pc \in {"wait_enter", "done"} /\ retry_count = 0 /\ lastBuilds = Some(<<>>))
         => trig = Some(GaveUp)
    /\ (trig # None /\ trig[1].message = GaveUp.message) =>
         /\ trig[1] = GaveUp
         /\ pc \in {"wait_enter", "done"}
         /\ lastQueue # None /\ LastQueueNumber = None
         /\ LastQueueCode = 404 \/ Count("QUEUE") = QueueAttempts
         /\ Count("BUILDS") = FallbackRetries /\ retry_count = 0
         /\ lastBuilds = Some(<<>>)

\* trigger_job gave up after QueueAttempts polls and FallbackRetries queries.
C24_Witness ==
    TriggerReturned /\ trig = Some(GaveUp) /\ Count("QUEUE") = QueueAttempts

\* ---------------------------------------- claims on extract_lag_values
\* The lines of the CR-split text after the header that have 7 columns or more.
WideLines(text) ==
    SelectSeq(Tail(Split(Strip(text), <<CR>>)), LAMBDA line : Len(Words(Strip(line))) >= 7)

\* C25: extract_lag_values returns, in input order, one entry for every line
\* after the header that has at least 7 columns, with the topic of column
\* index 1 and the integer of column index 5; lines with fewer columns leave
\* no trace.
C25_OneEntryPerWideLine ==
    Called("extract_lag_values") =>
      /\ Len(output) = Len(WideLines(input))
      /\ \A i \in DOMAIN output :
           LET columns == Words(Strip(WideLines(input)[i]))
           IN /\ output[i].topic = columns[2]
              /\ IsInt(columns[6]) /\ output[i].lag = IntValue(columns[6])

\* ------------------------------------------- claims on the stages' requests
IsWaitRequest(r) == r.req \in {"STATUS", "LOGS"}
IsTriggerRequest(r) == r.req \in {"POST", "QUEUE", "BUILDS"}

\* C26: status, console-log and artifact requests are sent only after
\* trigger_job returned; they name the job of the trigger and the build
\* number it returned; the artifact request is the last request, sent after
\* the wait returned SUCCESS, with the path output.txt; the lag action names
\* the job kafka_describe_consumer_group in every request.
C26_StagesInOrderOnOneBuild ==
    /\ \A i \in DOMAIN sent :
         /\ IsTriggerRequest(sent[i]) =>
              /\ sent[i].job = JobName(action)
              /\ \A j \in DOMAIN sent : IsTriggerRequest(sent[j])
              /\ waitResp = None /\ fetched = None /\ fetchExc = None
         /\ ~IsTriggerRequest(sent[i]) =>
              /\ trig # None /\ trig[1].success
              /\ sent[i].job = JobName(action)
              /\ sent[i].build = trig[1].build_number[1]
         /\ IsWaitRequest(sent[i]) => sent[i].path = ""
         /\ sent[i].req = "ARTIFACT" =>
              /\ i = Len(sent)
              /\ waitResp # None /\ waitResp[1].status = "SUCCESS"
              /\ sent[i].path = "output.txt"
         /\ action = "get_lag_of_kafka_consumer_group"
              => sent[i].job = "kafka_describe_consumer_group"
    /\ (fetched # None \/ fetchExc # None) => Count("ARTIFACT") = 1

\* The lag action sent its artifact request after status and log requests.
C26_Witness ==
    /\ action = "get_lag_of_kafka_consumer_group"
    /\ Count("ARTIFACT") = 1 /\ Count("STATUS") > 1 /\ Count("LOGS") = 1

\* C27: when trigger_job returns success=true, its build number is the number
\* of the build this invocation's POST started, whether it comes from the
\* queue item or from the build list, in which builds of other triggers and
\* earlier builds appear too.
C27_OwnBuildReturned ==
    (TriggerReturned /\ trig[1].success) =>
      started # 0 /\ trig[1].build_number = Some(ToString(started))

\* Before the POST nothing was sent; while trigger_job runs and when it has
\* returned, the log of its requests starts with its one POST.
OnePostSent ==
    /\ Count("POST") <= 1
    /\ pc = "trigger" => sent = <<>>
    /\ pc \in {"queue", "fallback", "wait_enter"} => Count("POST") = 1 /\ sent[1].req = "POST"
    /\ started # 0 => Count("POST") = 1

\* A POST is sent only by the first step of trigger_job, and trigger_job is
\* not entered again.
PostOnlyFirst ==
    /\ Count("POST")' > Count("POST") => pc = "trigger" /\ pc' # "trigger"
    /\ pc' = "trigger" => pc = "trigger"

\* C28: one invocation sends exactly one job-start POST: it is the first
\* request of trigger_job, and no queue poll, fallback query, error path or
\* later stage sends another.
C28_ExactlyOnePost == []OnePostSent /\ [][PostOnlyFirst]_vars

\* trigger_job failed after all its queue polls and fallback queries.
C28_Witness ==
    /\ TriggerReturned /\ ~trig[1].success
    /\ Count("POST") = 1 /\ Count("QUEUE") = QueueAttempts /\ Count("BUILDS") = FallbackRetries

\* The time the status polls of the wait took, sleeps left out.
PollTime == elapsed_time - retries * retry_delay

\* C29: the wait makes at most max_retries status polls and sleeps
\* retry_delay after each non-terminal one; when the polls took no time a
\* wait that stops on a bound stops on the retry cap, max_retries *
\* retry_delay after its start and before the timeout; it stops on the
\* timeout only when the polls themselves took more than the rest of it.
C29_RetryCapBeforeTimeout ==
    /\ Count("STATUS") <= max_retries
    /\ pc = "wait_loop" =>
         /\ Count("STATUS") = retries
         /\ now - start_time >= retries * retry_delay
    /\ max_retries * retry_delay < timeout
    /\ (WaitReturned /\ lastLogs = None /\ PollTime = 0) =>
         /\ waitResp[1] = RetriesResponse
         /\ Count("STATUS") = max_retries
         /\ elapsed_time = max_retries * retry_delay
    /\ (WaitReturned /\ waitResp[1] = TimeoutResponse) =>
         PollTime > timeout - max_retries * retry_delay

\* The wait stopped on the retry cap after polls that took no time.
C29_Witness ==
    WaitReturned /\ waitResp[1] = RetriesResponse /\ PollTime = 0

\* The wait stage ended: wait_for_job_completion returned or raised.
WaitEnded == waitResp # None \/ (waitExc # None /\ waitExc[1] # VE_BuildParams)

\* C30: wait_for_job_completion never raises: whenever it was entered and
\* has ended it has returned a JobStatusResponse, also when the console-log
\* request after a terminal status failed in the transport.
C30_WaitNeverRaises ==
    /\ WaitEnded => waitResp # None /\ waitExc = None
    /\ (lastReply # None /\ pc \in {"wait_exit", "done"}) => waitResp # None

====
